---- MODULE Spec2Model ----
(***************************************************************************)
(* Model of ralph-for-kiro: the iteration control loop (run_loop), the     *)
(* conversation store reader (get_latest_session), the session helpers     *)
(* (get_last_assistant_text, check_completion_promise) and the cancel      *)
(* command (cancel_cmd), which runs as a separate process.                 *)
(*                                                                         *)
(* Texts are sequences of one-character strings.                           *)
(***************************************************************************)
EXTENDS Integers, Sequences, FiniteSets, TLC

\* ------------------------------------------------------------------ bounds
\* largest iteration an unbounded run (max_iterations = 0) is followed to
MaxIter == 2
\* largest --min-iterations / --max-iterations value tried
MaxMin == 2
MaxMax == 2
\* created_at values of the records that are in the store before the loop
MaxInitStamp == 2

\* ------------------------------------------------------------ text helpers
UpperCase == <<"A","B","C","D","E","F","G","H","I","J","K","L","M",
               "N","O","P","Q","R","S","T","U","V","W","X","Y","Z">>
LowerCase == <<"a","b","c","d","e","f","g","h","i","j","k","l","m",
               "n","o","p","q","r","s","t","u","v","w","x","y","z">>

\* re.IGNORECASE folds the case of every character of pattern and text
Lower(c) ==
    IF \E i \in 1..26 : UpperCase[i] = c
    THEN LowerCase[CHOOSE i \in 1..26 : UpperCase[i] = c]
    ELSE c

\* the characters \s matches
IsSpace(c) == c \in {" ", "\t", "\n", "\r", "\f"}

\* str.strip() == "" : every character is whitespace
IsBlank(s) == \A i \in 1..Len(s) : IsSpace(s[i])

OpenTag  == <<"<","p","r","o","m","i","s","e",">">>
CloseTag == <<"<","/","p","r","o","m","i","s","e",">">>

\* lit occurs in text at position i, compared under IGNORECASE
LitAt(text, i, lit) ==
    /\ i >= 1
    /\ i + Len(lit) - 1 <= Len(text)
    /\ \A j \in 1..Len(lit) : Lower(text[i + j - 1]) = Lower(lit[j])

\* lit occurs in text at position i, character for character
ExactAt(text, i, lit) ==
    /\ i >= 1
    /\ i + Len(lit) - 1 <= Len(text)
    /\ \A j \in 1..Len(lit) : text[i + j - 1] = lit[j]

\* text[i..i+n-1] is whitespace only
SpacesAt(text, i, n) ==
    /\ i + n - 1 <= Len(text)
    /\ \A j \in 0..(n - 1) : IsSpace(text[i + j])

\* the pattern <promise>\s*PHRASE\s*</promise> matches starting at i;
\* re.escape makes PHRASE a literal
PatternAt(text, i, promise) ==
    /\ LitAt(text, i, OpenTag)
    /\ \E a \in 0..Len(text), b \in 0..Len(text) :
          /\ SpacesAt(text, i + Len(OpenTag), a)
          /\ LitAt(text, i + Len(OpenTag) + a, promise)
          /\ SpacesAt(text, i + Len(OpenTag) + a + Len(promise), b)
          /\ LitAt(text, i + Len(OpenTag) + a + Len(promise) + b, CloseTag)

\* re.search(pattern, text, re.IGNORECASE)
ReSearch(text, promise) == \E i \in 1..Len(text) : PatternAt(text, i, promise)

\* ------------------------------------------------------- session (models)
\* A turn's assistant payload: absent, a ToolUse, or a Response with content.
NoAssistant == [kind |-> "none", content |-> <<>>]
ToolUse == [kind |-> "ToolUse", content |-> <<>>]
Response(text) == [kind |-> "Response", content |-> text]

NoText == [present |-> FALSE, text |-> <<>>]
SomeText(t) == [present |-> TRUE, text |-> t]

\* HistoryTurn.get_assistant_text
get_assistant_text(turn) ==
    IF turn.kind = "none" THEN NoText
    ELSE IF turn.kind = "Response" THEN SomeText(turn.content)
    ELSE NoText

\* Python truthiness of an optional string: None and "" are both falsy
Truthy(t) == t.present /\ Len(t.text) > 0

\* KiroSession.get_last_assistant_text: newest turn first, first truthy text
RECURSIVE LastTextFrom(_, _)
LastTextFrom(history, n) ==
    IF n = 0 THEN NoText
    ELSE IF Truthy(get_assistant_text(history[n]))
         THEN get_assistant_text(history[n])
         ELSE LastTextFrom(history, n - 1)

get_last_assistant_text(session) == LastTextFrom(session.history, Len(session.history))

\* KiroSession.check_completion_promise
check_completion_promise(session, promise) ==
    IF ~Truthy(get_last_assistant_text(session)) THEN FALSE
    ELSE ReSearch(get_last_assistant_text(session).text, promise)

\* ---------------------------------------------------- conversation store
\* The value column of a record: text that is not JSON, JSON that is not a
\* KiroSession (a list, a scalar, history of the wrong type), or a session.
BadJson == [kind |-> "badjson", history |-> <<>>]
WrongShape == [kind |-> "wrongshape", history |-> <<>>]
SessionPayload(h) == [kind |-> "session", history |-> h]

Row(k, t, v) == [key |-> k, created_at |-> t, value |-> v]

\* Path.resolve(): /link is a symbolic link to /proj
Paths == {"/proj", "/link", "/other"}
Resolve(p) == IF p = "/link" THEN "/proj" ELSE p

Absent == [status |-> "absent", history |-> <<>>, exc |-> "none"]
Found(h) == [status |-> "session", history |-> h, exc |-> "none"]
Raised(e) == [status |-> "raised", history |-> <<>>, exc |-> e]

\* KiroSession.model_validate_json: pydantic reports both invalid JSON and
\* a payload of the wrong shape as pydantic.ValidationError
model_validate_json(value) ==
    IF value.kind = "session" THEN Found(value.history)
    ELSE Raised("pydantic.ValidationError")

\* except (sqlite3.Error, json.JSONDecodeError)
CaughtBySessionReader == {"sqlite3.Error", "json.JSONDecodeError"}

\* an exception raised inside the try block of get_latest_session
ReaderExcept(res) ==
    IF res.status = "raised" /\ res.exc \in CaughtBySessionReader
    THEN Absent ELSE res

\* mutant: the WHERE clause is missing
RowsForKey_AnyKey(st, key) == st

\* WHERE key = ?
RowsForKey(st, key) == {r \in st : r.key = key}

\* mutant: ORDER BY created_at ASC
NewestRows_Oldest(rows) == {r \in rows : \A q \in rows : q.created_at >= r.created_at}

\* ORDER BY created_at DESC LIMIT 1 (the order among equal created_at is
\* not determined by the query: any of them)
NewestRows(rows) == {r \in rows : \A q \in rows : q.created_at <= r.created_at}

\* get_latest_session: the set of results the call can produce.  dbFails:
\* the connect / execute / fetch raises sqlite3.Error (locked, corrupt, no table).
get_latest_session(dir, exists, st, dbFails) ==
    IF ~exists THEN {Absent}
    ELSE IF dbFails THEN {ReaderExcept(Raised("sqlite3.Error"))}
    ELSE IF RowsForKey(st, Resolve(dir)) = {} THEN {Absent}
    ELSE {ReaderExcept(model_validate_json(r.value)) :
             r \in NewestRows(RowsForKey(st, Resolve(dir)))}

\* ----------------------------------------------------------- sample data
PhraseOK == <<"O","K">>
TextWorking == <<"h","i">>
\* "ok\n<promise>ok</promise>"
TextDone == <<"o","k","\n">> \o OpenTag \o <<"o","k">> \o CloseTag

HistWorking == <<Response(TextWorking)>>
HistDone == <<ToolUse, Response(TextDone)>>
HistDoneThenWorking == <<Response(TextDone), Response(TextWorking)>>
HistDoneThenEmpty == <<Response(TextDone), Response(<<>>)>>

\* what one agent run can leave in the store for its working directory
AgentPayloads ==
    {SessionPayload(HistWorking), SessionPayload(HistDone),
     SessionPayload(HistDoneThenEmpty), BadJson}

\* store contents before the loop starts: no store file, an empty store,
\* a conversation of an earlier run, a record of another directory
NoStore == [exists |-> FALSE, rows |-> {}]
InitStores ==
    { NoStore,
      [exists |-> TRUE, rows |-> {}],
      [exists |-> TRUE, rows |-> {Row("/proj", 1, SessionPayload(HistDone))}],
      [exists |-> TRUE, rows |-> {Row("/proj", 1, WrongShape),
                                  Row("/other", 2, SessionPayload(HistDone))}] }

\* ------------------------------------------------------------ loop state
VARIABLES
    args,            \* the arguments of loop_cmd
    agentFileExists, \* LOCAL_AGENT_PATH.exists()
    cwd,             \* Path.cwd(); the argument of get_latest_session
    pc,              \* position of the loop process
    iteration,       \* run_loop's iteration
    stateFile,       \* STATE_FILE
    clock,           \* datetime.now()
    dbExists,        \* KIRO_DB_PATH.exists()
    store,           \* rows of conversations_v2
    exit_code,       \* run_chat's return value
    session,         \* result of get_latest_session
    outcome,         \* how the loop process ended
    exitStatus,      \* its exit status (-1: still running)
    reported,        \* the iteration printed on exit
    invocations,     \* number of run_chat calls
    checks,          \* iterations at which get_latest_session was called
    error,           \* the uncaught exception that ended the process
    dbError,         \* the last store read raised sqlite3.Error
    interrupted,     \* a KeyboardInterrupt was delivered
    cancelledAt,     \* iteration at which cancel_cmd first removed the file
    cancelReport,    \* what the last cancel_cmd printed
    sessionFile,     \* SESSION_FILE exists
    fnIn,            \* argument of a function called by itself
    fnOut            \* its result

vars == <<args, agentFileExists, cwd, pc, iteration, stateFile, clock, dbExists,
          store, exit_code, session, outcome, exitStatus, reported,
          invocations, checks, error, dbError, interrupted, cancelledAt,
          cancelReport, sessionFile, fnIn, fnOut>>

\* the variables of the function-level specifications
pure == <<fnIn, fnOut>>

\* what cancel_cmd prints and the second file it removes
cancel == <<cancelReport, sessionFile>>

NoFile == [exists |-> FALSE]
File(content) == [exists |-> TRUE, content |-> content]

\* LoopState(iteration=..., ...): active and started_at take their defaults
LoopState(it, cfg, now) ==
    [active |-> TRUE,
     iteration |-> it,
     min_iterations |-> cfg.min_iterations,
     max_iterations |-> cfg.max_iterations,
     completion_promise |-> cfg.completion_promise,
     started_at |-> now,
     prompt |-> cfg.prompt]

\* ------------------------------------------------- state (models/state.py)
\* A text is a sequence of characters; a field name, true and false stand
\* in it as one element each.
Delim == <<"-","-","-">>
Digit == <<"0","1","2","3","4","5","6","7","8","9">>

\* str(n) of a natural number
RECURSIVE IntText(_)
IntText(n) ==
    IF n < 10 THEN <<Digit[n + 1]>>
    ELSE IntText(n \div 10) \o <<Digit[(n % 10) + 1]>>

IsDigit(c) == \E d \in 1..10 : Digit[d] = c
DigitValue(c) == (CHOOSE d \in 1..10 : Digit[d] = c) - 1

\* int(s) of a text of digits
RECURSIVE IntValue(_)
IntValue(s) ==
    IF Len(s) = 0 THEN 0
    ELSE 10 * IntValue(SubSeq(s, 1, Len(s) - 1)) + DigitValue(s[Len(s)])

IsDigits(s) == Len(s) >= 1 /\ \A i \in 1..Len(s) : IsDigit(s[i])

\* model_dump(mode="json") of a datetime: its ISO form, the instant t
\* written between the date-time letters T and Z
IsoText(t) == <<"T">> \o IntText(t) \o <<"Z">>
IsIsoText(s) ==
    /\ Len(s) >= 3
    /\ s[1] = "T"
    /\ s[Len(s)] = "Z"
    /\ IsDigits(SubSeq(s, 2, Len(s) - 1))
IsoValue(s) == IntValue(SubSeq(s, 2, Len(s) - 1))

BoolText(b) == IF b THEN <<"true">> ELSE <<"false">>

\* YAML's implicit resolver: what a plain scalar is read as
IsIntText(s) ==
    IsDigits(s) \/ (Len(s) >= 2 /\ s[1] = "-" /\ IsDigits(SubSeq(s, 2, Len(s))))
ResolvesTo(s) ==
    IF s = <<>> THEN "null"
    ELSE IF s \in {<<"true">>, <<"false">>} THEN "bool"
    ELSE IF IsIntText(s) THEN "int"
    ELSE IF IsIsoText(s) THEN "timestamp"
    ELSE "str"

\* a colon that ends a mapping key: followed by a space or by the end
KeyColonAt(s, i) == s[i] = ":" /\ (i = Len(s) \/ s[i + 1] = " ")

\* yaml.dump's choice of style for a str: plain is not allowed for a text
\* that would be read back as another type, that starts or ends with a
\* space, or that holds a block indicator
NeedsQuote(s) ==
    \/ ResolvesTo(s) # "str"
    \/ s[1] = " "
    \/ s[Len(s)] = " "
    \/ s[1] = "'"
    \/ ExactAt(s, 1, Delim)
    \/ (s[1] = "-" /\ (Len(s) = 1 \/ s[2] = " "))
    \/ \E i \in 1..Len(s) : KeyColonAt(s, i)

\* the single-quoted style: every quote of the text is doubled
RECURSIVE DoubleQuotes(_)
DoubleQuotes(s) ==
    IF s = <<>> THEN <<>>
    ELSE (IF s[1] = "'" THEN <<"'", "'">> ELSE <<s[1]>>) \o DoubleQuotes(Tail(s))

StrText(s) == IF NeedsQuote(s) THEN <<"'">> \o DoubleQuotes(s) \o <<"'">> ELSE s

YamlLine(key, valueText) == <<key, ":", " ">> \o valueText \o <<"\n">>

\* yaml.dump(frontmatter, default_flow_style=False, sort_keys=False)
yaml_dump(st) ==
    YamlLine("active", BoolText(st.active))
    \o YamlLine("iteration", IntText(st.iteration))
    \o YamlLine("min_iterations", IntText(st.min_iterations))
    \o YamlLine("max_iterations", IntText(st.max_iterations))
    \o YamlLine("completion_promise", StrText(st.completion_promise))
    \o YamlLine("started_at", StrText(IsoText(st.started_at)))

\* LoopState.to_markdown
to_markdown(st) == Delim \o <<"\n">> \o yaml_dump(st) \o Delim \o <<"\n", "\n">> \o st.prompt

\* text.find(lit, i): the first position >= i at which lit occurs, 0 if none
RECURSIVE Find(_, _, _)
Find(text, lit, i) ==
    IF i + Len(lit) - 1 > Len(text) THEN 0
    ELSE IF ExactAt(text, i, lit) THEN i
    ELSE Find(text, lit, i + 1)

\* content.split("---", 2): at most two cuts, the rest is kept whole
SplitDelim(content) ==
    LET i1 == Find(content, Delim, 1)
        i2 == Find(content, Delim, i1 + Len(Delim))
    IN  IF i1 = 0 THEN <<content>>
        ELSE IF i2 = 0
             THEN <<SubSeq(content, 1, i1 - 1),
                    SubSeq(content, i1 + Len(Delim), Len(content))>>
             ELSE <<SubSeq(content, 1, i1 - 1),
                    SubSeq(content, i1 + Len(Delim), i2 - 1),
                    SubSeq(content, i2 + Len(Delim), Len(content))>>

\* str.strip()
Strip(s) ==
    IF IsBlank(s) THEN <<>>
    ELSE LET a == CHOOSE i \in 1..Len(s) :
                      ~IsSpace(s[i]) /\ \A j \in 1..(i - 1) : IsSpace(s[j])
             b == CHOOSE i \in 1..Len(s) :
                      ~IsSpace(s[i]) /\ \A j \in (i + 1)..Len(s) : IsSpace(s[j])
         IN  SubSeq(s, a, b)

\* the lines of a text
RECURSIVE SplitLines(_)
SplitLines(s) ==
    LET i == Find(s, <<"\n">>, 1)
    IN  IF i = 0 THEN <<s>>
        ELSE <<SubSeq(s, 1, i - 1)>> \o SplitLines(SubSeq(s, i + 1, Len(s)))

\* A YAML scalar as loaded: the type the resolver gives it and its text.
YValue(type, text) == [t |-> type, v |-> text]
YError == YValue("error", <<>>)
YMissing == YValue("missing", <<>>)

\* a single-quoted scalar read from s[i] on, s[i - 1] being the opening
\* quote: '' is a quote, a single ' closes the scalar
RECURSIVE UnquoteFrom(_, _)
UnquoteFrom(s, i) ==
    IF i > Len(s) THEN [closed |-> FALSE, text |-> <<>>, next |-> i]
    ELSE IF s[i] = "'"
         THEN IF i < Len(s) /\ s[i + 1] = "'"
              THEN LET r == UnquoteFrom(s, i + 2)
                   IN  [r EXCEPT !.text = <<"'">> \o r.text]
              ELSE [closed |-> TRUE, text |-> <<>>, next |-> i + 1]
         ELSE LET r == UnquoteFrom(s, i + 1)
              IN  [r EXCEPT !.text = <<s[i]>> \o r.text]

IsItemLine(s) == Len(s) >= 1 /\ s[1] = "-" /\ (Len(s) = 1 \/ s[2] = " ")

\* the value of a scalar of the document; s is stripped
ScalarValue(s) ==
    IF s = <<>> THEN YValue("null", <<>>)
    ELSE IF s[1] = "'"
         THEN LET r == UnquoteFrom(s, 2)
              IN  IF r.closed /\ r.next > Len(s) THEN YValue("str", r.text)
                  ELSE YError
         ELSE IF IsItemLine(s) \/ \E i \in 1..Len(s) : KeyColonAt(s, i)
              THEN YError
              ELSE YValue(ResolvesTo(s), s)

\* One line of a block document (the lines start in column 0): an item of
\* a sequence, an entry "key: value" of a mapping, or a scalar.
HasKey(s) == s[1] # "'" /\ \E i \in 2..Len(s) : KeyColonAt(s, i)
KeyEnd(s) == CHOOSE i \in 2..Len(s) :
                 KeyColonAt(s, i) /\ \A j \in 2..(i - 1) : ~KeyColonAt(s, j)
RECURSIVE LineKind(_)
LineKind(s) ==
    IF IsItemLine(s)
    THEN IF ~IsBlank(SubSeq(s, 3, Len(s)))
            /\ LineKind(Strip(SubSeq(s, 3, Len(s)))) = "error"
         THEN "error" ELSE "item"
    ELSE IF KeyColonAt(s, 1) THEN "error"
    ELSE IF HasKey(s)
         THEN IF ScalarValue(Strip(SubSeq(s, KeyEnd(s) + 1, Len(s)))) = YError
              THEN "error" ELSE "entry"
    ELSE IF s[1] = "'"
         THEN IF ScalarValue(s) = YError THEN "error" ELSE "quoted"
    ELSE "plain"

\* a line that continues a plain scalar begun on a line before it
Continues(s) == s[1] # "'" /\ \A i \in 1..Len(s) : ~KeyColonAt(s, i)

Entry(s) == [key |-> SubSeq(s, 1, KeyEnd(s) - 1),
             value |-> ScalarValue(Strip(SubSeq(s, KeyEnd(s) + 1, Len(s))))]

\* the lines of a text that are not blank, stripped
RECURSIVE Compact(_)
Compact(lines) ==
    IF lines = <<>> THEN <<>>
    ELSE (IF IsBlank(lines[1]) THEN <<>> ELSE <<Strip(lines[1])>>)
         \o Compact(Tail(lines))

\* yaml.safe_load(text): None, a mapping, another value (a sequence, or a
\* scalar that may run over several lines), or a yaml.YAMLError
safe_load(text) ==
    LET lines == Compact(SplitLines(text))
        kinds == {LineKind(lines[i]) : i \in 1..Len(lines)}
    IN  IF lines = <<>> THEN [kind |-> "none", entries |-> <<>>]
        ELSE IF kinds = {"entry"}
             THEN [kind |-> "mapping",
                   entries |-> [i \in 1..Len(lines) |-> Entry(lines[i])]]
        ELSE IF \/ kinds = {"item"}
                \/ (LineKind(lines[1]) = "quoted" /\ Len(lines) = 1)
                \/ (/\ LineKind(lines[1]) = "plain"
                    /\ \A i \in 2..Len(lines) : Continues(lines[i]))
             THEN IF Len(lines) = 1 /\ ScalarValue(lines[1]).t = "null"
                  THEN [kind |-> "none", entries |-> <<>>]
                  ELSE [kind |-> "other", entries |-> <<>>]
        ELSE [kind |-> "error", entries |-> <<>>]

\* frontmatter.get(key): a later entry of the same key replaces an earlier
Lookup(entries, key) ==
    IF \E i \in 1..Len(entries) : entries[i].key = <<key>>
    THEN entries[CHOOSE i \in 1..Len(entries) :
                     /\ entries[i].key = <<key>>
                     /\ \A j \in (i + 1)..Len(entries) : entries[j].key # <<key>>].value
    ELSE YMissing

\* pydantic's validation of one field: bool, int with a lower bound, str,
\* datetime; 0, 1 and the words true and false are accepted for a bool, a
\* str of digits for an int, an ISO str for a datetime
BoolOk(f) ==
    \/ f.t \in {"missing", "bool"}
    \/ f.t \in {"int", "str"} /\ f.v \in {<<"0">>, <<"1">>}
    \/ f.t = "str" /\ f.v \in {<<"true">>, <<"false">>}
IntOk(f, least) ==
    \/ f.t = "missing"
    \/ f.t = "int" /\ IsDigits(f.v) /\ IntValue(f.v) >= least
    \/ f.t = "str" /\ IsDigits(f.v) /\ IntValue(f.v) >= least
StrOk(f) == f.t \in {"missing", "str"}
TimeOk(f) ==
    \/ f.t \in {"missing", "timestamp"}
    \/ f.t = "str" /\ IsIsoText(f.v)
BoolOf(f, default) == IF f.t = "missing" THEN default ELSE f.v \in {<<"true">>, <<"1">>}
IntOf(f, default) == IF f.t = "missing" THEN default ELSE IntValue(f.v)
StrOf(f, default) == IF f.t = "missing" THEN default ELSE f.v
TimeOf(f, default) == IF f.t = "missing" THEN default ELSE IsoValue(f.v)

DefaultPromise == <<"C","O","M","P","L","E","T","E">>

\* What from_markdown does: it returns a LoopState or raises.
Parsed(st) == [raised |-> "none", message |-> "none", state |-> <<st>>]
Failed(exc, msg) == [raised |-> exc, message |-> msg, state |-> <<>>]

\* cls.model_validate(frontmatter), the fields' defaults included
model_validate(entries, prompt, now) ==
    IF /\ BoolOk(Lookup(entries, "active"))
       /\ IntOk(Lookup(entries, "iteration"), 1)
       /\ IntOk(Lookup(entries, "min_iterations"), 1)
       /\ IntOk(Lookup(entries, "max_iterations"), 0)
       /\ StrOk(Lookup(entries, "completion_promise"))
       /\ TimeOk(Lookup(entries, "started_at"))
    THEN Parsed([active |-> BoolOf(Lookup(entries, "active"), TRUE),
                 iteration |-> IntOf(Lookup(entries, "iteration"), 1),
                 min_iterations |-> IntOf(Lookup(entries, "min_iterations"), 1),
                 max_iterations |-> IntOf(Lookup(entries, "max_iterations"), 0),
                 completion_promise |->
                     StrOf(Lookup(entries, "completion_promise"), DefaultPromise),
                 started_at |-> TimeOf(Lookup(entries, "started_at"), now),
                 prompt |-> prompt])
    ELSE Failed("ValidationError", "validation errors for LoopState")

\* LoopState.from_markdown, called at the instant now
from_markdown(content, now) ==
    LET parts == SplitDelim(content)
        frontmatter == safe_load(parts[2])
    IN  IF Len(parts) < 3
        THEN Failed("ValueError", "Invalid state file format: missing YAML frontmatter")
        ELSE IF frontmatter.kind = "error"
        THEN Failed("YAMLError", "yaml")
        ELSE IF frontmatter.kind = "none"
        THEN Failed("ValueError", "Invalid state file format: empty frontmatter")
        ELSE IF frontmatter.kind = "other"
        THEN Failed("TypeError", "object does not support item assignment")
        ELSE model_validate(frontmatter.entries, Strip(parts[3]), now)

\* what cancel_cmd prints
NoReport == <<>>
NotFoundReport == <<"No active Ralph loop found.">>
CancelledReport(it) == <<"Cancelled Ralph loop (was at iteration ">> \o it \o <<")">>

\* STATE_FILE.read_text() and LoopState.from_markdown in cancel_cmd
ReadState(file, now) ==
    IF file.exists THEN from_markdown(file.content, now)
    ELSE Failed("FileNotFoundError", "No such file or directory")

\* the exceptions that are instances of Exception: `except Exception`
CaughtByCancel_ValueError == {"ValueError", "ValidationError"}
CaughtByCancel ==
    {"ValueError", "ValidationError", "YAMLError", "TypeError", "FileNotFoundError"}

\* cancel_cmd's try block: the iteration of the state read, or ?
CancelIteration(r) == IF r.raised = "none" THEN IntText(r.state[1].iteration) ELSE <<"?">>

\* mutant: LoopConfig without validate_promise
LoopConfigValid_NoValidator(a) ==
    /\ Len(a.prompt) >= 1
    /\ a.min_iterations >= 1
    /\ a.max_iterations >= 0

\* LoopConfig's field constraints and validate_promise
LoopConfigValid(a) ==
    /\ Len(a.prompt) >= 1
    /\ a.min_iterations >= 1
    /\ a.max_iterations >= 0
    /\ ~IsBlank(a.completion_promise)

DEFAULT_AGENT_NAME == "ralph-wiggum"

\* self.agent_name: the name given, or the default name
ResolvedAgent(a) == IF a.agent_name = "None" THEN DEFAULT_AGENT_NAME ELSE a.agent_name

\* .kiro/agents/<name>.json exists: the project holds at most the default
\* agent's configuration, at LOCAL_AGENT_PATH
AgentConfigExists(name, fileExists) == name = DEFAULT_AGENT_NAME /\ fileExists

KiroClientOk_Unverified(a, fileExists) == TRUE

\* KiroClient.__init__: agent_name or self._default_agent_name()
KiroClientOk(a, fileExists) == a.agent_name # "None" \/ fileExists

ArgSets ==
    [prompt : {<<>>, <<"x">>},
     min_iterations : 0..MaxMin,
     max_iterations : -1..MaxMax,
     completion_promise : {PhraseOK, <<" ">>, <<>>},
     agent_name : {"None", "custom"}]

Init ==
    /\ args \in ArgSets
    /\ agentFileExists \in BOOLEAN
    /\ cwd = "/proj"
    /\ pc = "idle"
    /\ iteration = 0
    /\ stateFile = NoFile
    /\ clock = MaxInitStamp
    /\ \E s \in InitStores : dbExists = s.exists /\ store = s.rows
    /\ exit_code = 0
    /\ session = Absent
    /\ outcome = "none"
    /\ exitStatus = -1
    /\ reported = -1
    /\ invocations = 0
    /\ checks = {}
    /\ error = "none"
    /\ dbError = FALSE
    /\ interrupted = FALSE
    /\ cancelledAt = 0
    /\ cancelReport = NoReport
    /\ sessionFile = FALSE
    /\ fnIn = <<>>
    /\ fnOut = <<>>

\* the process ends
Exit(how, status) ==
    /\ pc' = "done"
    /\ outcome' = how
    /\ exitStatus' = status
    /\ reported' = iteration

\* the interpreter's exit status for an uncaught exception
UncaughtStatus == 1

\* an exception nothing catches ends the process with a traceback
Uncaught(how, exc) ==
    /\ Exit(how, UncaughtStatus)
    /\ error' = exc

\* what no step of the loop changes
env == <<args, agentFileExists, cwd>>

\* loop_cmd up to the start of the while loop: LoopConfig(...) validates,
\* KiroClient(...) resolves the agent name
LoopCmd ==
    /\ pc = "idle"
    /\ IF ~LoopConfigValid(args)
       THEN Uncaught("ConfigInvalid", "pydantic.ValidationError")
       ELSE IF ~KiroClientOk(args, agentFileExists)
            THEN Uncaught("ConfigurationMissing", "FileNotFoundError")
            ELSE /\ pc' = "top"
                 /\ UNCHANGED <<outcome, exitStatus, reported, error>>
    /\ UNCHANGED <<env, pure, cancel, iteration, stateFile, clock, dbExists, store,
                   exit_code, session, invocations, checks, dbError,
                   interrupted, cancelledAt>>

\* iteration += 1
Increment ==
    /\ pc = "top"
    /\ iteration < MaxIter
    /\ iteration' = iteration + 1
    /\ pc' = "write"
    /\ UNCHANGED <<env, pure, cancel, stateFile, clock, dbExists, store, exit_code, session,
                   outcome, exitStatus, reported, invocations, checks, error,
                   dbError, interrupted, cancelledAt>>

WriteState_Skipped ==
    /\ pc = "write"
    /\ \E ok \in BOOLEAN :
          IF ok
          THEN /\ UNCHANGED stateFile
               /\ pc' = "invoke"
               /\ UNCHANGED <<outcome, exitStatus, reported, error>>
          ELSE /\ Uncaught("Error", "OSError")
               /\ UNCHANGED stateFile
    /\ UNCHANGED <<env, pure, cancel, iteration, clock, dbExists, store, exit_code, session,
                   invocations, checks, dbError, interrupted, cancelledAt>>

\* STATE_FILE.parent.mkdir(...); STATE_FILE.write_text(state.to_markdown());
\* either can raise OSError
WriteState ==
    /\ pc = "write"
    /\ \E ok \in BOOLEAN :
          IF ok
          THEN /\ stateFile' = File(to_markdown(LoopState(iteration, args, clock)))
               /\ pc' = "invoke"
               /\ UNCHANGED <<outcome, exitStatus, reported, error>>
          ELSE /\ Uncaught("Error", "OSError")
               /\ UNCHANGED stateFile
    /\ UNCHANGED <<env, pure, cancel, iteration, clock, dbExists, store, exit_code, session,
                   invocations, checks, dbError, interrupted, cancelledAt>>

\* client.run_chat(config.prompt): subprocess.run starts kiro-cli, or raises
\* OSError when it cannot be started
StartAgent ==
    /\ pc = "invoke"
    /\ invocations' = invocations + 1
    /\ \E ok \in BOOLEAN :
          IF ok
          THEN /\ pc' = "running"
               /\ UNCHANGED <<outcome, exitStatus, reported, error>>
          ELSE Uncaught("Error", "OSError")
    /\ UNCHANGED <<env, pure, cancel, iteration, stateFile, clock, dbExists, store,
                   exit_code, session, checks, dbError, interrupted,
                   cancelledAt>>

\* kiro-cli terminates: it may have recorded a conversation for its working
\* directory, and returns any exit status
AgentExit ==
    /\ pc = "running"
    /\ clock' = clock + 1
    /\ \E code \in {0, 1} : exit_code' = code
    /\ \/ UNCHANGED <<dbExists, store>>
       \/ \E v \in AgentPayloads :
             /\ dbExists' = TRUE
             /\ store' = store \cup {Row(Resolve(cwd), clock', v)}
    /\ pc' = "ran"
    /\ UNCHANGED <<env, pure, cancel, iteration, stateFile, session, outcome, exitStatus,
                   reported, invocations, checks, error, dbError, interrupted,
                   cancelledAt>>

\* mutant: the completion check is made at every iteration
AfterAgent_AlwaysCheck(it, cfg, code) == "check"

\* mutant: a non-zero exit status of the agent stops the loop
AfterAgent_StopOnFailure(it, cfg, code) ==
    IF code # 0 THEN "exit_max"
    ELSE IF it >= cfg.min_iterations THEN "check" ELSE "max"

\* mutant: the max-iterations test comes before the completion check
AfterAgent_MaxFirst(it, cfg, code) ==
    IF cfg.max_iterations > 0 /\ it >= cfg.max_iterations THEN "exit_max"
    ELSE IF it >= cfg.min_iterations THEN "check" ELSE "max"

\* if exit_code != 0: print(...)
\* if iteration >= config.min_iterations: ... else: print(...)
AfterAgent(it, cfg, code) ==
    IF it >= cfg.min_iterations THEN "check" ELSE "max"

Gate ==
    /\ pc = "ran"
    /\ pc' = AfterAgent(iteration, args, exit_code)
    /\ UNCHANGED <<env, pure, cancel, iteration, stateFile, clock, dbExists, store,
                   exit_code, session, outcome, exitStatus, reported,
                   invocations, checks, error, dbError, interrupted,
                   cancelledAt>>

\* if session and session.check_completion_promise(config.completion_promise)
CompletionFound(res, cfg) ==
    /\ res.status = "session"
    /\ check_completion_promise(res, cfg.completion_promise)

\* session = get_latest_session(cwd) and the test of its result
CheckCompletion ==
    /\ pc = "check"
    /\ checks' = checks \cup {iteration}
    /\ \E dbFails \in BOOLEAN :
          /\ dbFails => dbExists
          /\ dbError' = dbFails
          /\ \E res \in get_latest_session(cwd, dbExists, store, dbFails) :
                /\ session' = res
                /\ IF res.status = "raised" THEN Uncaught("Error", res.exc)
                   ELSE /\ pc' = IF CompletionFound(res, args)
                                 THEN "exit_completed" ELSE "max"
                        /\ UNCHANGED <<outcome, exitStatus, reported, error>>
    /\ UNCHANGED <<env, pure, cancel, iteration, stateFile, clock, dbExists, store,
                   exit_code, invocations, interrupted, cancelledAt>>

\* cleanup(): STATE_FILE.unlink(missing_ok=True)
cleanup == stateFile' = NoFile

\* the arguments of the three sys.exit calls
ExitCompletedStatus == 0
ExitMaxStatus == 0
ExitInterruptStatus == 1

\* mutant: the success exit forgets cleanup()
ExitCompleted_NoCleanup ==
    /\ pc = "exit_completed"
    /\ Exit("Completed", ExitCompletedStatus)
    /\ UNCHANGED <<env, pure, cancel, iteration, stateFile, clock, dbExists, store,
                   exit_code, session, invocations, checks, error, dbError,
                   interrupted, cancelledAt>>

\* print("Completed at iteration ..."); cleanup(); sys.exit(0)
ExitCompleted ==
    /\ pc = "exit_completed"
    /\ cleanup
    /\ Exit("Completed", ExitCompletedStatus)
    /\ UNCHANGED <<env, pure, cancel, iteration, clock, dbExists, store, exit_code, session,
                   invocations, checks, error, dbError, interrupted,
                   cancelledAt>>

MaxHit_AfterMin(it, cfg) ==
    cfg.max_iterations > 0 /\ it >= cfg.max_iterations /\ it >= cfg.min_iterations

\* config.max_iterations > 0 and iteration >= config.max_iterations
MaxHit(it, cfg) == cfg.max_iterations > 0 /\ it >= cfg.max_iterations

MaxCheck ==
    /\ pc = "max"
    /\ pc' = IF MaxHit(iteration, args) THEN "exit_max" ELSE "top"
    /\ UNCHANGED <<env, pure, cancel, iteration, stateFile, clock, dbExists, store,
                   exit_code, session, outcome, exitStatus, reported,
                   invocations, checks, error, dbError, interrupted,
                   cancelledAt>>

\* print("Max iterations ... reached"); cleanup(); sys.exit(0)
ExitMax ==
    /\ pc = "exit_max"
    /\ cleanup
    /\ Exit("MaxReached", ExitMaxStatus)
    /\ UNCHANGED <<env, pure, cancel, iteration, clock, dbExists, store, exit_code, session,
                   invocations, checks, error, dbError, interrupted,
                   cancelledAt>>

\* the positions inside the try block
InTry == {"top", "write", "invoke", "running", "ran", "check", "max",
          "exit_completed", "exit_max"}

\* mutant: the interrupt handler forgets cleanup()
Interrupt_NoCleanup ==
    /\ pc \in InTry
    /\ interrupted' = TRUE
    /\ Exit("Cancelled", ExitInterruptStatus)
    /\ UNCHANGED <<env, pure, cancel, iteration, stateFile, clock, dbExists, store,
                   exit_code, session, invocations, checks, error, dbError,
                   cancelledAt>>

\* except KeyboardInterrupt: print("Interrupted at iteration ...");
\* cleanup(); sys.exit(1)
Interrupt ==
    /\ pc \in InTry
    /\ interrupted' = TRUE
    /\ cleanup
    /\ Exit("Cancelled", ExitInterruptStatus)
    /\ UNCHANGED <<env, pure, cancel, iteration, clock, dbExists, store, exit_code, session,
                   invocations, checks, error, dbError, cancelledAt>>

\* cancel_cmd, run by the operator in another process between two steps of
\* the loop: the state file, when there is one, is removed with the session
\* file (what cancel_cmd reads and prints is followed step by step in
\* SpecCancel)
CancelCmd ==
    /\ stateFile.exists
    /\ stateFile' = NoFile
    /\ cancelledAt' = IF cancelledAt = 0 /\ pc \in InTry
                      THEN iteration ELSE cancelledAt
    /\ sessionFile' = FALSE
    /\ UNCHANGED <<env, pure, cancelReport, pc, iteration, clock, dbExists, store,
                   exit_code, session, outcome, exitStatus, reported,
                   invocations, checks, error, dbError, interrupted>>

Next ==
    \/ LoopCmd
    \/ Increment
    \/ WriteState
    \/ StartAgent
    \/ AgentExit
    \/ Gate
    \/ CheckCompletion
    \/ ExitCompleted
    \/ MaxCheck
    \/ ExitMax
    \/ Interrupt
    \/ CancelCmd

Spec == Init /\ [][Next]_vars

\* The steps of run_loop itself: the process runs on as long as it can, and
\* kiro-cli, once started, terminates. An interrupt or a cancel_cmd may come
\* or not.
LoopStep ==
    \/ LoopCmd
    \/ Increment
    \/ WriteState
    \/ StartAgent
    \/ AgentExit
    \/ Gate
    \/ CheckCompletion
    \/ ExitCompleted
    \/ MaxCheck
    \/ ExitMax

\* the runs of the bounded configurations that pass LoopConfig and KiroClient,
\* with the default agent and no store file before the first iteration
InitBounded ==
    /\ Init
    /\ LoopConfigValid(args)
    /\ args.agent_name = "None"
    /\ agentFileExists
    /\ args.max_iterations > 0
    /\ ~dbExists

SpecBounded == InitBounded /\ [][Next]_vars /\ WF_vars(LoopStep)

\* --------------------------------------------- the store reader by itself
\* largest number of rows in the store
MaxRows == 3

ReaderPayloads ==
    {SessionPayload(HistWorking), SessionPayload(HistDone), BadJson, WrongShape}

ReaderRows ==
    {Row(k, t, v) : k \in Paths, t \in 1..MaxInitStamp, v \in ReaderPayloads}

RECURSIVE StoresUpTo(_)
StoresUpTo(n) ==
    IF n = 0 THEN {{}}
    ELSE StoresUpTo(n - 1) \cup
         {st \cup {r} : st \in StoresUpTo(n - 1), r \in ReaderRows}

DefaultArgs ==
    [prompt |-> <<"x">>, min_iterations |-> 1, max_iterations |-> 0,
     completion_promise |-> PhraseOK, agent_name |-> "None"]

InitReader ==
    /\ args = DefaultArgs
    /\ agentFileExists = TRUE
    /\ cwd \in Paths
    /\ pc = "call"
    /\ iteration = 0
    /\ stateFile = NoFile
    /\ clock = MaxInitStamp
    /\ dbExists \in BOOLEAN
    /\ store \in StoresUpTo(MaxRows)
    /\ dbExists = FALSE => store = {}
    /\ exit_code = 0
    /\ session = Absent
    /\ outcome = "none"
    /\ exitStatus = -1
    /\ reported = -1
    /\ invocations = 0
    /\ checks = {}
    /\ error = "none"
    /\ dbError = FALSE
    /\ interrupted = FALSE
    /\ cancelledAt = 0
    /\ cancelReport = NoReport
    /\ sessionFile = FALSE
    /\ fnIn = <<>>
    /\ fnOut = <<>>

\* one call get_latest_session(cwd)
GetLatest ==
    /\ pc = "call"
    /\ pc' = "returned"
    /\ \E dbFails \in BOOLEAN :
          /\ dbFails => dbExists
          /\ dbError' = dbFails
          /\ \E res \in get_latest_session(cwd, dbExists, store, dbFails) :
                /\ session' = res
                /\ error' = res.exc
    /\ UNCHANGED <<env, pure, cancel, iteration, stateFile, clock, dbExists, store,
                   exit_code, outcome, exitStatus, reported, invocations,
                   checks, interrupted, cancelledAt>>

NextReader == GetLatest

SpecReader == InitReader /\ [][NextReader]_vars

\* ------------------------------------------- functions called by themselves
\* the loop's variables while a single function is exercised
Idle(position) ==
    /\ args = DefaultArgs
    /\ agentFileExists = TRUE
    /\ cwd = "/proj"
    /\ pc = position
    /\ iteration = 0
    /\ stateFile = NoFile
    /\ clock = MaxInitStamp
    /\ dbExists = FALSE
    /\ store = {}
    /\ exit_code = 0
    /\ session = Absent
    /\ outcome = "none"
    /\ exitStatus = -1
    /\ reported = -1
    /\ invocations = 0
    /\ checks = {}
    /\ error = "none"
    /\ dbError = FALSE
    /\ interrupted = FALSE
    /\ cancelledAt = 0
    /\ cancelReport = NoReport
    /\ sessionFile = FALSE

\* a function is called on fnIn and its result kept in fnOut
Call(from, to, result) ==
    /\ pc = from
    /\ pc' = to
    /\ fnOut' = result
    /\ UNCHANGED <<env, iteration, stateFile, clock, dbExists, store,
                   exit_code, session, outcome, exitStatus, reported,
                   invocations, checks, error, dbError, interrupted,
                   cancelledAt, cancel, fnIn>>

\* --------------------------------------------------- the promise matcher
\* largest number of pieces a text is made of
MaxTextPieces == 5

OpenTagUpper == <<"<","P","R","O","M","I","S","E",">">>

TextPieces == {OpenTag, CloseTag, OpenTagUpper, <<" ">>, <<"a">>, <<"A">>, <<".">>}

RECURSIVE TextsUpTo(_)
TextsUpTo(n) ==
    IF n = 0 THEN {<<>>}
    ELSE TextsUpTo(n - 1) \cup
         {t \o piece : t \in TextsUpTo(n - 1), piece \in TextPieces}

MatcherPhrases == {<<"a">>, <<".">>}

InitMatcher ==
    /\ Idle("match")
    /\ fnIn \in [text : TextsUpTo(MaxTextPieces), phrase : MatcherPhrases]
    /\ fnOut = FALSE

\* bool(re.search(pattern, text, re.IGNORECASE))
Match == Call("match", "matched", ReSearch(fnIn.text, fnIn.phrase))

NextMatcher == Match

SpecMatcher == InitMatcher /\ [][NextMatcher]_vars

\* ------------------------------------------------- the session's methods
\* largest number of turns of a conversation
MaxTurns == 3

SessionTurns ==
    {NoAssistant, ToolUse, Response(<<>>), Response(TextWorking), Response(TextDone)}

RECURSIVE HistoriesUpTo(_)
HistoriesUpTo(n) ==
    IF n = 0 THEN {<<>>}
    ELSE HistoriesUpTo(n - 1) \cup
         {Append(h, turn) : h \in HistoriesUpTo(n - 1), turn \in SessionTurns}

InitSession ==
    /\ Idle("session")
    /\ fnIn \in [history : HistoriesUpTo(MaxTurns), phrase : {PhraseOK}]
    /\ fnOut = NoText

\* session.get_last_assistant_text()
GetLastText == Call("session", "texted", get_last_assistant_text(fnIn))

\* session.check_completion_promise(promise)
CheckPromise == Call("session", "checked", check_completion_promise(fnIn, fnIn.phrase))

NextSession == GetLastText \/ CheckPromise

SpecSession == InitSession /\ [][NextSession]_vars

\* ---------------------------------------------- the state's serialisation
\* largest number of characters of a completion phrase
MaxPhraseLen == 3

PhraseChars == {"a", " ", "'", "-", "true"}

RECURSIVE PhrasesUpTo(_)
PhrasesUpTo(n) ==
    IF n = 0 THEN {<<>>}
    ELSE PhrasesUpTo(n - 1) \cup
         {Append(t, c) : t \in PhrasesUpTo(n - 1), c \in PhraseChars}

Prompts ==
    {<<>>, <<"x">>, <<" ", "x", "\n">>, Delim, <<"x">> \o Delim \o <<"y">>,
     <<"\n">> \o Delim \o <<"\n", "x">>}

\* the LoopState values that are serialised: every one satisfies the
\* fields' constraints (iteration >= 1, min_iterations >= 1, max_iterations >= 0)
LoopStates ==
    [active : BOOLEAN,
     iteration : {1, 10},
     min_iterations : {1},
     max_iterations : {0, 3},
     completion_promise : PhrasesUpTo(MaxPhraseLen),
     started_at : {12},
     prompt : Prompts]

InitRoundTrip ==
    /\ Idle("state")
    /\ fnIn \in [state : LoopStates, now : {13}]
    /\ fnOut = Failed("none", "none")

\* LoopState.from_markdown(state.to_markdown())
RoundTrip == Call("state", "parsed", from_markdown(to_markdown(fnIn.state), fnIn.now))

NextRoundTrip == RoundTrip

SpecRoundTrip == InitRoundTrip /\ [][NextRoundTrip]_vars

\* ------------------------------------------------ parsing any file content
\* largest number of pieces a file content is made of
MaxParsePieces == 4

ParsePieces == {Delim, <<"\n">>, <<"a">>, <<"a", ":", " ", "a">>, <<"-", " ", "a">>}

RECURSIVE ContentsUpTo(_)
ContentsUpTo(n) ==
    IF n = 0 THEN {<<>>}
    ELSE ContentsUpTo(n - 1) \cup
         {t \o piece : t \in ContentsUpTo(n - 1), piece \in ParsePieces}

InitParse ==
    /\ Idle("parse")
    /\ fnIn \in [content : ContentsUpTo(MaxParsePieces), now : {13}]
    /\ fnOut = Failed("none", "none")

\* LoopState.from_markdown(content)
Parse == Call("parse", "parse_done", from_markdown(fnIn.content, fnIn.now))

NextParse == Parse

SpecParse == InitParse /\ [][NextParse]_vars

\* ------------------------------------------------- cancel_cmd step by step
\* largest number of pieces of a state file that the loop did not write
MaxCancelPieces == 3

\* the states a loop may have written
CancelStates ==
    {LoopState(it, [DefaultArgs EXCEPT !.completion_promise = phrase], MaxInitStamp) :
        it \in {1, 2, 10}, phrase \in {PhraseOK, Delim, <<"a">> \o Delim \o <<"b">>}}

CancelFiles ==
    {NoFile}
    \cup {File(to_markdown(st)) : st \in CancelStates}
    \cup {File(content) : content \in ContentsUpTo(MaxCancelPieces)}

InitCancel ==
    /\ args = DefaultArgs
    /\ agentFileExists = TRUE
    /\ cwd = "/proj"
    /\ pc = "cancel"
    /\ iteration = 0
    /\ stateFile \in CancelFiles
    /\ clock = MaxInitStamp
    /\ dbExists = FALSE
    /\ store = {}
    /\ exit_code = 0
    /\ session = Absent
    /\ outcome = "none"
    /\ exitStatus = -1
    /\ reported = -1
    /\ invocations = 0
    /\ checks = {}
    /\ error = "none"
    /\ dbError = FALSE
    /\ interrupted = FALSE
    /\ cancelledAt = 0
    /\ cancelReport = NoReport
    /\ sessionFile \in BOOLEAN
    /\ fnIn = NoFile
    /\ fnOut = <<>>

\* what no step of cancel_cmd or cleanup touches
cancelFrame ==
    <<env, iteration, clock, dbExists, store, exit_code, session, outcome,
      exitStatus, reported, invocations, checks, dbError, interrupted,
      cancelledAt>>

\* if not STATE_FILE.exists(): print and return
CancelExists ==
    /\ pc = "cancel"
    /\ IF stateFile.exists
       THEN /\ pc' = "cancel_read"
            /\ UNCHANGED cancelReport
       ELSE /\ pc' = "cancelled"
            /\ cancelReport' = NotFoundReport
    /\ UNCHANGED <<cancelFrame, stateFile, sessionFile, error, pure>>

\* the try block: fnIn keeps what was read, fnOut is the local `iteration`
CancelRead ==
    /\ pc = "cancel_read"
    /\ fnIn' = stateFile
    /\ LET r == ReadState(stateFile, clock)
       IN  IF r.raised = "none" \/ r.raised \in CaughtByCancel
           THEN /\ fnOut' = CancelIteration(r)
                /\ pc' = "cancel_unlink"
                /\ UNCHANGED error
           ELSE /\ error' = r.raised
                /\ pc' = "cancel_failed"
                /\ UNCHANGED fnOut
    /\ UNCHANGED <<cancelFrame, stateFile, cancel>>

CancelUnlink_NotMissingOk ==
    /\ pc = "cancel_unlink"
    /\ IF stateFile.exists
       THEN /\ stateFile' = NoFile
            /\ sessionFile' = FALSE
            /\ cancelReport' = CancelledReport(fnOut)
            /\ pc' = "cancelled"
            /\ UNCHANGED error
       ELSE /\ error' = "FileNotFoundError"
            /\ pc' = "cancel_failed"
            /\ UNCHANGED <<stateFile, cancel>>
    /\ UNCHANGED <<cancelFrame, pure>>

\* STATE_FILE.unlink(missing_ok=True); SESSION_FILE.unlink(missing_ok=True);
\* print
CancelUnlink ==
    /\ pc = "cancel_unlink"
    /\ stateFile' = NoFile
    /\ sessionFile' = FALSE
    /\ cancelReport' = CancelledReport(fnOut)
    /\ pc' = "cancelled"
    /\ UNCHANGED <<cancelFrame, error, pure>>

\* the operator runs cancel_cmd again
CancelAgain ==
    /\ pc = "cancelled"
    /\ pc' = "cancel"
    /\ UNCHANGED <<cancelFrame, stateFile, cancel, error, pure>>

\* cleanup() of a loop that ends, in the loop's process
LoopCleanup ==
    /\ cleanup
    /\ UNCHANGED <<cancelFrame, pc, cancel, error, pure>>

NextCancel == CancelExists \/ CancelRead \/ CancelUnlink \/ CancelAgain \/ LoopCleanup

SpecCancel == InitCancel /\ [][NextCancel]_vars

\* ================================================================ claims
\* the run has started: the configuration was accepted
Started == pc \in InTry \/ (pc = "done" /\ outcome \notin {"ConfigInvalid", "ConfigurationMissing"})

\* the text of the newest turn that carries a Response, whatever the text
RECURSIVE LastResponseFrom(_, _)
LastResponseFrom(history, n) ==
    IF n = 0 THEN NoText
    ELSE IF history[n].kind = "Response" THEN SomeText(history[n].content)
         ELSE LastResponseFrom(history, n - 1)

\* the conversation's last textual response contains the completion marker
HasMarker(history, promise) ==
    LET t == LastResponseFrom(history, Len(history))
    IN  t.present /\ ReSearch(t.text, promise)

\* the rows of the store for the loop's working directory
OwnRows == {r \in store : r.key = Resolve(cwd)}

\* the rows among those with the greatest created_at
OwnLatest == {r \in OwnRows : \A q \in OwnRows : q.created_at <= r.created_at}

\* the latest conversation of the working directory carries the marker
LatestHasMarker ==
    /\ dbExists
    /\ OwnRows # {}
    /\ \A r \in OwnLatest :
          r.value.kind = "session" /\ HasMarker(r.value.history, args.completion_promise)

\* C1: no completion check (store read) happens at an iteration below
\* min_iterations, so the loop never stops as Completed below it, even with
\* the marker in the store at iteration 1; once an iteration >= min_iterations
\* has passed its gate, iteration min_iterations has been checked.
C1_MinIterationGating ==
    Started =>
      /\ \A k \in checks : k >= args.min_iterations
      /\ pc \in {"check", "exit_completed"} => iteration >= args.min_iterations
      /\ outcome = "Completed" => reported >= args.min_iterations
      /\ (pc \in {"max", "exit_max", "exit_completed"} /\ iteration >= args.min_iterations)
            => args.min_iterations \in checks

C1_Witness ==
    /\ pc = "max"
    /\ iteration = 1
    /\ args.min_iterations = 2
    /\ checks = {}
    /\ LatestHasMarker

\* C2: with max_iterations = N > 0, no marker found and no interrupt, the
\* loop makes exactly N agent invocations and stops as MaxReached with the
\* state file deleted; it never starts iteration N + 1.
C2_MaxBound ==
    /\ (Started /\ args.max_iterations > 0) => iteration <= args.max_iterations
    /\ (/\ pc = "done"
        /\ Started
        /\ args.max_iterations > 0
        /\ ~interrupted
        /\ outcome # "Completed"
        /\ error # "OSError")
          => /\ outcome = "MaxReached"
             /\ invocations = args.max_iterations
             /\ ~stateFile.exists

C4_StateFileRemoved == (pc = "done" /\ Started) => ~stateFile.exists

\* C5: an interrupt delivered at any point of iteration k ends the loop as
\* Cancelled: the state file is absent, the reported iteration is k, no agent
\* invocation follows, and the exit status is non-zero and differs from the
\* statuses of Completed and MaxReached.
C5_InterruptCancels ==
    /\ [](interrupted =>
             /\ pc = "done"
             /\ outcome = "Cancelled"
             /\ ~stateFile.exists
             /\ reported = iteration
             /\ exitStatus # 0
             /\ exitStatus # ExitCompletedStatus
             /\ exitStatus # ExitMaxStatus)
    /\ [][interrupted => invocations' = invocations]_vars

C5_Witness ==
    /\ interrupted
    /\ args.max_iterations = 0
    /\ iteration = 2
    /\ invocations = 2
    /\ exitStatus = 1

\* C6: the exit status is 0 exactly when the loop stopped as Completed;
\* MaxReached, an interrupt and a configuration error give non-zero statuses.
C6_ExitStatuses ==
    pc = "done" => ((exitStatus = 0) <=> (outcome = "Completed"))

\* C7: after cancel_cmd removed the state file at iteration k of a running
\* loop, the loop starts no iteration k + 1 and the file stays absent.
C7_CancelStopsLoop ==
    cancelledAt > 0 => (iteration = cancelledAt /\ ~stateFile.exists)

\* C8: the step after the agent run depends on the iteration and the
\* configuration only, not on the agent's exit status; a non-zero exit ends
\* nothing and the agent runs at most once per iteration.
C8_AgentExitNotFatal ==
    /\ [][(pc = "running" /\ pc' # pc /\ ~interrupted') => pc' = "ran"]_vars
    /\ [][(pc = "ran" /\ pc' # pc /\ ~interrupted')
             => /\ pc' = IF iteration >= args.min_iterations THEN "check" ELSE "max"
                /\ outcome' = "none"]_vars
    /\ [][(pc = "max" /\ pc' # pc /\ ~interrupted')
             => pc' = IF args.max_iterations > 0 /\ iteration >= args.max_iterations
                      THEN "exit_max" ELSE "top"]_vars
    /\ [](invocations <= iteration)

C8_Witness ==
    /\ exit_code = 1
    /\ pc = "write"
    /\ iteration = 2
    /\ invocations = 1

\* C9: get_latest_session never raises: a failed read and an unparseable
\* newest record both give absent, and the loop goes on to the
\* max-iterations check.
C9_ReaderNeverRaises ==
    /\ session.status # "raised"
    /\ ~(outcome = "Error" /\ error = "pydantic.ValidationError")

\* C10: a returned conversation is the payload of a record that has the
\* resolved working directory as key and the greatest created_at among the
\* records of that key; whenever such records exist and parse, and the read
\* succeeds, a conversation is returned.
C10_MostRecentWins ==
    pc = "returned" =>
      /\ session.status = "session" =>
            \E r \in OwnLatest :
               r.value.kind = "session" /\ r.value.history = session.history
      /\ (/\ dbExists
          /\ ~dbError
          /\ OwnRows # {}
          /\ \A r \in OwnLatest : r.value.kind = "session")
            => session.status = "session"

C10_Witness ==
    /\ pc = "returned"
    /\ cwd = "/link"
    /\ session.status = "session"
    /\ \E r \in OwnRows : r \notin OwnLatest
    /\ \E q \in store :
          /\ q.key # Resolve(cwd)
          /\ q.value # SessionPayload(session.history)
          /\ \A r \in OwnRows : q.created_at >= r.created_at

\* C11: get_latest_session returns absent and raises nothing when the store
\* file does not exist and when the store has no record for the resolved
\* working directory; the call leaves the store as it was.
C11_AbsentWithoutRaising ==
    /\ []((pc = "returned" /\ (~dbExists \/ OwnRows = {}))
             => (session = Absent /\ error = "none"))
    /\ [][pc = "call" => (store' = store /\ dbExists' = dbExists)]_vars

C11_Witness ==
    /\ pc = "returned"
    /\ dbExists
    /\ ~dbError
    /\ OwnRows = {}
    /\ \E r \in store : r.value.kind = "session"
    /\ session = Absent

\* the completion marker as the specification describes it: the literal
\* tags, whitespace inside them, the phrase in any case
MarkerAt(text, i, phrase) ==
    /\ ExactAt(text, i, OpenTag)
    /\ \E a \in 0..Len(text), b \in 0..Len(text) :
          /\ SpacesAt(text, i + Len(OpenTag), a)
          /\ LitAt(text, i + Len(OpenTag) + a, phrase)
          /\ SpacesAt(text, i + Len(OpenTag) + a + Len(phrase), b)
          /\ ExactAt(text, i + Len(OpenTag) + a + Len(phrase) + b, CloseTag)

ContainsMarker(text, phrase) == \E i \in 1..Len(text) : MarkerAt(text, i, phrase)

\* C12: the match is true iff the text contains the literal tag <promise>,
\* whitespace, the phrase compared case-insensitively and literally,
\* whitespace, and the literal tag </promise>, contiguously.
C12_PromiseMatcher ==
    pc = "matched" => (fnOut <=> ContainsMarker(fnIn.text, fnIn.phrase))

\* C13: get_last_assistant_text returns the text of the newest turn whose
\* assistant payload is a Response, whatever that text is (an empty text
\* included), skipping turns without payload and ToolUse turns, and returns
\* nothing when no turn carries a Response.
C13_LastAssistantText ==
    pc = "texted" => fnOut = LastResponseFrom(fnIn.history, Len(fnIn.history))

\* the history has a turn that carries a Response
HasResponse(history) == \E n \in 1..Len(history) : history[n].kind = "Response"

\* C14: check_completion_promise is true exactly when the last assistant
\* text (the newest Response's text) is present and the matcher accepts it:
\* false without any Response, and false when only a Response older than the
\* newest one carries the marker.
C14_CompletionCheck ==
    pc = "checked" =>
        /\ fnOut <=> HasMarker(fnIn.history, fnIn.phrase)
        /\ ~HasResponse(fnIn.history) => ~fnOut
        /\ \A n \in 1..Len(fnIn.history) :
               (/\ fnIn.history[n].kind = "Response"
                /\ ~ReSearch(fnIn.history[n].content, fnIn.phrase)
                /\ \A m \in (n + 1)..Len(fnIn.history) : fnIn.history[m].kind # "Response")
               => ~fnOut

\* C15: for every valid LoopState, from_markdown(to_markdown(s)) gives back
\* active, iteration, min_iterations, max_iterations, completion_promise and
\* started_at exactly, and the prompt with its leading and trailing
\* whitespace trimmed, whatever the phrase and the prompt (--- included).
C15_RoundTrip ==
    pc = "parsed" =>
        fnOut = Parsed([fnIn.state EXCEPT !.prompt = Strip(fnIn.state.prompt)])

\* the run ended before it started, without a state file or an invocation
EndedConfigurationMissing ==
    /\ pc = "done"
    /\ outcome = "ConfigurationMissing"
    /\ stateFile = NoFile
    /\ invocations = 0

\* C16: when the configuration of the resolved agent (the default one, or
\* the one named with --agent) does not exist, the loop fails with
\* ConfigurationMissing before it starts: no state file, no invocation.
C16_ConfigurationMissing ==
    (/\ pc # "idle"
     /\ LoopConfigValid(args)
     /\ ~AgentConfigExists(ResolvedAgent(args), agentFileExists))
    => EndedConfigurationMissing

\* C16 as the code has it: only the default agent is verified. Without
\* --agent and without the default configuration the loop fails with
\* ConfigurationMissing before it starts; with --agent it never fails so.
C16_DefaultAgentVerified ==
    /\ (/\ pc # "idle"
        /\ LoopConfigValid(args)
        /\ args.agent_name = "None"
        /\ ~agentFileExists)
       => EndedConfigurationMissing
    /\ args.agent_name # "None" => outcome # "ConfigurationMissing"

C16_Witness ==
    /\ EndedConfigurationMissing
    /\ args.agent_name = "None"
    /\ ~agentFileExists

\* the delimiter occurs fewer than twice in the content
FewerThanTwoDelims(content) ==
    \/ Find(content, Delim, 1) = 0
    \/ Find(content, Delim, Find(content, Delim, 1) + Len(Delim)) = 0

\* the text between the first two delimiters
HeaderOf(content) ==
    SubSeq(content, Find(content, Delim, 1) + Len(Delim),
           Find(content, Delim, Find(content, Delim, 1) + Len(Delim)) - 1)

\* C18: from_markdown fails with a descriptive parse error (a ValueError
\* "Invalid state file format: ...") and returns no LoopState whenever the
\* delimiter occurs fewer than twice, the header is missing, or the header
\* parses to nothing: to None, or to a value that is not a mapping.
C18_ParseErrors ==
    (/\ pc = "parse_done"
     /\ \/ FewerThanTwoDelims(fnIn.content)
        \/ IsBlank(HeaderOf(fnIn.content))
        \/ safe_load(HeaderOf(fnIn.content)).kind \in {"none", "other"})
    => (fnOut.raised = "ValueError" /\ fnOut.state = <<>>)

\* C17: when a state file exists, cancel_cmd deletes it and reports the
\* iteration recorded in it, or ? when the content cannot be parsed as a
\* LoopState; a malformed file never makes cancel_cmd fail or leave the file.
C17_CancelReports ==
    /\ error = "none"
    /\ pc # "cancel_failed"
    /\ (pc = "cancelled" /\ cancelReport # NotFoundReport) =>
          /\ ~stateFile.exists
          /\ cancelReport = CancelledReport(<<"?">>)
                <=> ReadState(fnIn, clock).raised # "none"
          /\ \A st \in CancelStates :
                (fnIn = File(to_markdown(st)) /\ ReadState(fnIn, clock).raised = "none")
                => cancelReport = CancelledReport(IntText(st.iteration))

C17_Witness ==
    /\ pc = "cancelled"
    /\ fnIn.exists
    /\ ReadState(fnIn, clock).raised = "TypeError"
    /\ cancelReport = CancelledReport(<<"?">>)
    /\ ~stateFile.exists

\* C19: every deletion succeeds when the file is already absent: no step of
\* cleanup() or cancel_cmd raises, no step brings an absent state file back,
\* and a cancel_cmd begun without a state file changes no file.
C19_IdempotentCleanup ==
    /\ [](error = "none" /\ pc # "cancel_failed")
    /\ [][~stateFile.exists => ~stateFile'.exists]_vars
    /\ [][(pc = "cancel" /\ ~stateFile.exists)
            => (stateFile' = stateFile /\ sessionFile' = sessionFile)]_vars

\* cancel_cmd's deletions ran after cleanup() had removed the file
C19_Witness ==
    /\ pc = "cancelled"
    /\ fnIn = NoFile
    /\ cancelReport = CancelledReport(<<"?">>)
    /\ ~stateFile.exists
    /\ error = "none"

\* the state file exists and is the serialisation of active = true,
\* iteration = k and the bounds, phrase and prompt of the configuration
Records(k) ==
    /\ stateFile.exists
    /\ \E t \in 0..clock :
          stateFile.content =
              to_markdown([active |-> TRUE,
                           iteration |-> k,
                           min_iterations |-> args.min_iterations,
                           max_iterations |-> args.max_iterations,
                           completion_promise |-> args.completion_promise,
                           started_at |-> t,
                           prompt |-> args.prompt])

\* the state file is written before the agent is invoked and, unless it is
\* deleted from outside, records iteration k while the agent of iteration k
\* runs; the iteration starts at 1 and grows by exactly 1 per pass
PersistBeforeInvoke ==
    /\ []((pc = "running" /\ cancelledAt = 0) => Records(iteration))
    /\ [](pc = "idle" => iteration = 0)
    /\ [][iteration' = iteration \/ iteration' = iteration + 1]_vars
    /\ [][(pc = "write" /\ pc' = "invoke") => iteration' = invocations' + 1]_vars

\* C20: persist before invoke (above), and the number of agent invocations
\* made so far always equals the recorded iteration.
C20_PersistBeforeInvoke ==
    /\ PersistBeforeInvoke
    /\ [](stateFile.exists => Records(invocations))

\* C20 as the code has it: the recorded iteration equals the number of
\* invocations made once the agent of that iteration has been invoked; from
\* the write to the invocation it is one more.
C20_RecordedAheadUntilInvoked ==
    /\ PersistBeforeInvoke
    /\ [](stateFile.exists =>
             IF pc = "invoke" THEN Records(invocations + 1) ELSE Records(invocations))

C20_Witness ==
    /\ pc = "running"
    /\ cancelledAt = 0
    /\ iteration = 2
    /\ invocations = 2
    /\ Records(2)

\* C21: with max_iterations > 0, min_iterations > max_iterations included,
\* and every agent run terminating, run_loop ends after at most
\* max_iterations agent invocations; with min_iterations > max_iterations
\* it makes no completion check and, unless it is interrupted or a file or
\* process operation fails, ends as MaxReached at iteration max_iterations.
C21_BoundedRunsTerminate ==
    /\ (args.max_iterations > 0) ~> (pc = "done")
    /\ []((Started /\ args.max_iterations > 0)
            => invocations <= args.max_iterations)
    /\ []((args.min_iterations > args.max_iterations /\ args.max_iterations > 0)
            => checks = {})
    /\ []((/\ pc = "done"
           /\ Started
           /\ args.min_iterations > args.max_iterations
           /\ args.max_iterations > 0
           /\ ~interrupted
           /\ error = "none")
            => /\ outcome = "MaxReached"
               /\ reported = args.max_iterations
               /\ invocations = args.max_iterations)

C21_Witness ==
    /\ pc = "done"
    /\ outcome = "MaxReached"
    /\ args.min_iterations > args.max_iterations
    /\ reported = args.max_iterations
    /\ invocations = args.max_iterations
    /\ checks = {}

\* the file is the serialisation of iteration k of this run, started at t
RecordsAt(file, k, t) ==
    /\ file.exists
    /\ file.content =
          to_markdown([active |-> TRUE,
                       iteration |-> k,
                       min_iterations |-> args.min_iterations,
                       max_iterations |-> args.max_iterations,
                       completion_promise |-> args.completion_promise,
                       started_at |-> t,
                       prompt |-> args.prompt])

\* C22: the started_at written at iteration 1 is written again at every
\* later iteration of the run: a write changes the iteration field only.
C22_StartTimestampFixed ==
    [][(pc = "write" /\ pc' = "invoke" /\ stateFile.exists)
         => \E t \in 0..clock :
               /\ RecordsAt(stateFile, iteration - 1, t)
               /\ RecordsAt(stateFile', iteration, t)]_vars

\* C23: the loop ends as Completed only on a conversation that an agent
\* invocation of this run recorded: the newest conversation of the working
\* directory, the one whose marker was accepted, is never one that was in
\* the store before the loop started.
C23_CompletionFromThisRun ==
    outcome = "Completed" => \A r \in OwnLatest : r.created_at > MaxInitStamp

\* C24: with max_iterations = 0 the loop never ends as MaxReached, and it
\* goes on from every iteration to the next unless a completion check at
\* an iteration >= min_iterations succeeded or an interrupt arrived (a file
\* or process operation that fails apart).
C24_UnboundedRuns ==
    /\ args.max_iterations = 0 => outcome # "MaxReached"
    /\ (pc = "max" /\ args.max_iterations = 0) => ~MaxHit(iteration, args)
    /\ (/\ pc = "done"
        /\ Started
        /\ args.max_iterations = 0
        /\ error # "OSError")
          => \/ interrupted
             \/ /\ outcome = "Completed"
                /\ reported >= args.min_iterations
                /\ reported \in checks

\* C25: at an iteration k >= min_iterations with k >= max_iterations > 0, a
\* completion check that succeeds gives Completed, never MaxReached; the
\* max-iterations test comes only after the completion check of the same
\* iteration was made or skipped.
C25_CompletedBeforeMax ==
    /\ [][(/\ pc = "check"
           /\ pc' # "check"
           /\ ~interrupted'
           /\ ~dbError'
           /\ LatestHasMarker
           /\ MaxHit(iteration, args))
             => pc' = "exit_completed"]_vars
    /\ [][(pc = "exit_completed" /\ pc' # pc /\ ~interrupted') => outcome' = "Completed"]_vars
    /\ [](pc \in {"max", "exit_max"} =>
             \/ iteration < args.min_iterations
             \/ iteration \in checks /\ ~CompletionFound(session, args))
    /\ [](outcome = "MaxReached" =>
             \/ reported < args.min_iterations
             \/ reported \in checks /\ ~CompletionFound(session, args))

C25_Witness ==
    /\ outcome = "Completed"
    /\ args.max_iterations > 0
    /\ reported = args.max_iterations
    /\ reported >= args.min_iterations
    /\ reported \in checks

\* the configurations the loop operation has to reject
Rejected ==
    \/ args.prompt = <<>>
    \/ args.min_iterations < 1
    \/ args.max_iterations < 0
    \/ \A i \in 1..Len(args.completion_promise) : args.completion_promise[i] = " "

\* C26: the loop operation rejects an empty prompt, min_iterations < 1,
\* max_iterations < 0 and a completion phrase that is empty or only
\* whitespace, before the loop starts: no state file is written and the
\* agent is never invoked.
C26_ValidatedBeforeLoop ==
    /\ [][(pc = "idle" /\ pc' # pc /\ Rejected)
             => pc' = "done" /\ outcome' = "ConfigInvalid" /\ exitStatus' # 0]_vars
    /\ [](Rejected =>
             /\ pc \in {"idle", "done"}
             /\ stateFile = NoFile
             /\ invocations = 0
             /\ iteration = 0)

C26_Witness ==
    /\ pc = "done"
    /\ outcome = "ConfigInvalid"
    /\ args.prompt # <<>>
    /\ args.min_iterations >= 1
    /\ args.max_iterations >= 0
    /\ args.completion_promise = <<" ">>
    /\ stateFile = NoFile
    /\ invocations = 0

====
